---- MODULE Spec2Model ----
(***************************************************************************)
(* Vector clocks of the labs repository.                                   *)
(*                                                                         *)
(*   src/vector_clock_process.py  VectorClock, VectorClockProcess          *)
(*   src/vector_process.py        the XML-RPC VectorClock (one per port)   *)
(*                                                                         *)
(* A Python dict is a function whose DOMAIN is the dict's key set; dict    *)
(* equality is function equality.                                          *)
(*                                                                         *)
(* Specifications:                                                         *)
(*   SpecClock  one clock object of either class, driven by arbitrary      *)
(*              well-formed arguments (the pure operations)                *)
(*   Spec       three VectorClockProcess instances exchanging the messages *)
(*              that send_message returns                                  *)
(*   SpecNet    the networked processes of vector_process.py               *)
(*   SpecHeap   VectorClockProcess with dict objects held by reference     *)
(*   SpecThreads  one networked process: its timer thread, its server      *)
(*              thread and a sending thread, statement by statement        *)
(*   SpecRace   one VectorClockProcess called from two threads             *)
(***************************************************************************)
EXTENDS Integers, Sequences, FiniteSets, TLC

\* ------------------------------------------------------------------ bounds
\* Largest counter an argument clock (initial_clock, received, other) holds.
MaxVal == 1
\* Largest value the own entry is driven to in SpecClock and SpecHeap.
MaxCount == 2
\* Most events (send_message, receive_message, local_event) the processes
\* of Spec perform in all.
MaxEvents == 5
\* Most timer ticks and receives the processes of SpecNet perform in all.
MaxNetEvents == 3
\* Most dict objects SpecHeap allocates, the two clocks included.
MaxObj == 4
\* Most messages kept in flight at once.
MaxInFlight == 2
\* Most entries a message_log is driven to.
MaxLog == 2

\* ------------------------------------------------------- process identities
\* demo_vector_clocks: VectorClockProcess("A"), ("B"), ("C")
Proc == {"A", "B", "C"}

\* ------------------------------------------------------------- dict helpers
\* {}
EmptyDict == [k \in {} |-> 0]

\* d.get(k, 0)
Get(d, k) == IF k \in DOMAIN d THEN d[k] ELSE 0

\* max(a, b)
Max(a, b) == IF a >= b THEN a ELSE b

\* every dict with keys in K and values in V
Dicts(K, V) == UNION {[S -> V] : S \in SUBSET K}

\* ------------------------------------- VectorClock (vector_clock_process.py)
\* compare's return values: -1, 0, 1, None
BEFORE == "-1"
CONCURRENT == "0"
AFTER == "1"
EQUAL == "None"

\* VectorClock.__init__: copy of initial_clock (or {}), own entry added at 0
VectorClockInit(process_id, initial_clock) ==
    IF process_id \in DOMAIN initial_clock
    THEN initial_clock
    ELSE [k \in DOMAIN initial_clock \cup {process_id} |->
            IF k = process_id THEN 0 ELSE initial_clock[k]]

\* VectorClock.increment: the clock after self.clock[self.process_id] += 1
Increment(process_id, clock) ==
    [clock EXCEPT ![process_id] = @ + 1]

\* the loop of VectorClock.update: max over the union of the key sets
MergeWrongKeepsRemote(clock, received_clock) ==
    [k \in DOMAIN clock \cup DOMAIN received_clock |->
        IF k \in DOMAIN received_clock THEN received_clock[k] ELSE clock[k]]

MergeLocalWins(clock, received_clock) ==
    [k \in DOMAIN clock \cup DOMAIN received_clock |->
        IF k \in DOMAIN clock THEN clock[k] ELSE received_clock[k]]

MergeAdds(clock, received_clock) ==
    [k \in DOMAIN clock \cup DOMAIN received_clock |->
        Get(clock, k) + Get(received_clock, k)]

MergeKnownKeysOnly(clock, received_clock) ==
    [k \in DOMAIN clock |-> Max(Get(clock, k), Get(received_clock, k))]

MergeMax(clock, received_clock) ==
    [k \in DOMAIN clock \cup DOMAIN received_clock |->
        Max(Get(clock, k), Get(received_clock, k))]

UpdateIncrementsTwice(process_id, clock, received_clock) ==
    Increment(process_id, Increment(process_id, MergeMax(clock, received_clock)))

UpdateForgetsIncrement(process_id, clock, received_clock) ==
    MergeMax(clock, received_clock)

\* VectorClock.update: merge, then self.increment()
Update(process_id, clock, received_clock) ==
    Increment(process_id, MergeMax(clock, received_clock))

\* the flags of VectorClock.compare after its loop over all_processes
less_than_all(clock, other_clock) ==
    \A k \in DOMAIN clock \cup DOMAIN other_clock :
        ~(Get(clock, k) > Get(other_clock, k))

greater_than_all_OwnKeys(clock, other_clock) ==
    \A k \in DOMAIN clock : ~(Get(clock, k) < Get(other_clock, k))

greater_than_all(clock, other_clock) ==
    \A k \in DOMAIN clock \cup DOMAIN other_clock :
        ~(Get(clock, k) < Get(other_clock, k))

CompareWrongBeforeBranch(clock, other_clock) ==
    IF clock = other_clock THEN EQUAL
    ELSE IF less_than_all(clock, other_clock) THEN BEFORE
    ELSE IF greater_than_all(clock, other_clock)
              /\ ~less_than_all(clock, other_clock) THEN AFTER
    ELSE CONCURRENT

\* VectorClock.compare
Compare(clock, other_clock) ==
    IF clock = other_clock THEN EQUAL
    ELSE IF less_than_all(clock, other_clock)
              /\ ~greater_than_all(clock, other_clock) THEN BEFORE
    ELSE IF greater_than_all(clock, other_clock)
              /\ ~less_than_all(clock, other_clock) THEN AFTER
    ELSE CONCURRENT

\* VectorClock.get_clock: self.clock.copy(), a dict equal to the clock
GetClock(clock) == clock

\* ------------------------------------------- VectorClock (vector_process.py)
\* VectorClock.__init__: {p: 0 for p in set(peers) | {port}}
NetInit(port, peers) == [p \in peers \cup {port} |-> 0]

NetMergeOverwrites(clock, incoming) ==
    [k \in DOMAIN clock \cup DOMAIN incoming |->
        IF k \in DOMAIN incoming THEN incoming[k] ELSE clock[k]]

\* receive_message's loop over incoming.items()
NetMerge(clock, incoming) ==
    [k \in DOMAIN clock \cup DOMAIN incoming |->
        IF k \in DOMAIN incoming
        THEN Max(Get(clock, k), incoming[k])
        ELSE clock[k]]

\* receive_message: incoming = message.get('clock', {}), merge, own entry + 1
NetReceiveMessage(port, clock, message) ==
    LET incoming == IF "clock" \in DOMAIN message THEN message.clock ELSE EmptyDict
        merged   == NetMerge(clock, incoming)
    IN  [k \in DOMAIN merged \cup {port} |->
            IF k = port THEN Get(merged, port) + 1 ELSE merged[k]]

\* one pass of _increment_clock's loop body
NetIncrementClock(port, clock) ==
    [k \in DOMAIN clock \cup {port} |->
        IF k = port THEN Get(clock, port) + 1 ELSE clock[k]]

\* ========================================================================
\* State
\* ========================================================================
VARIABLES
    \* SpecClock: one clock object
    o_kind,         \* "process": vector_clock_process.py, "net": vector_process.py
    o_pid,          \* self.process_id / self.port
    o_clock,        \* self.clock
    o_call,         \* the last call on the object: its name, self.clock before
                    \* it, its argument and its return value
    \* Spec: the VectorClockProcess instances
    vector_clock,   \* [p] self.vector_clock.clock of process p
    message_log,    \* [p] self.message_log of process p
    calls,          \* process -> the calls of send_message, receive_message and
                    \* local_event it has completed
    network,        \* the messages send_message returned that are in flight
    \* SpecNet: the networked processes, one per port
    n_clock,        \* [port] self.clock
    n_started,      \* the ports whose start() has run: server and timer threads
    n_call,         \* the last send_message call: its port, remote_port, the
                    \* message handed to the transport and how the call ended
    \* SpecHeap: VectorClockProcess instances with dicts held by reference
    heap,           \* the dict objects: heap[ref] is the dict's content
    h_clock,        \* [p] the reference self.vector_clock.clock of process p
    h_messages,     \* the messages send_message returned; vector_clock is a
                    \* reference
    h_log,          \* [p] self.message_log; local_clock is a reference
    h_views,        \* the mappings get_clock_state returned to callers
    \* SpecThreads: one process of vector_process.py and its threads
    t_clock,        \* self.clock
    t_lock,         \* self.lock: "free", or the thread that holds it
    t_timer,        \* the timer thread (_increment_clock): where it is, and
                    \* the value it read
    t_server,       \* the server thread (receive_message): where it is, the
                    \* incoming clock, the keys not merged yet, the value read
    t_main,         \* the thread in send_message: where it is, remote_port
                    \* and the message it built
    t_serial,       \* the clock the same operations give when each runs
                    \* alone, in the order in which they took the lock
    \* SpecRace: one VectorClockProcess called from two threads
    r_clock,        \* self.vector_clock.clock
    r_log,          \* self.message_log
    r_recv,         \* the thread in receive_message: where it is, its message
    r_committed     \* per receive_message call, in the order of the log: the
                    \* clock right after the call's own update

clockVars == <<o_kind, o_pid, o_clock, o_call>>
sysVars == <<vector_clock, message_log, network, calls>>
netVars == <<n_clock, n_started, n_call>>
heapVars == <<heap, h_clock, h_messages, h_log, h_views>>
thrVars == <<t_clock, t_lock, t_timer, t_server, t_main, t_serial>>

raceVars == <<r_clock, r_log, r_recv, r_committed>>

vars == <<clockVars, sysVars, netVars, heapVars, thrVars, raceVars>>

\* __main__ of vector_process.py: VectorClock(8001, ...)
ThisPort == 8001

\* the process of SpecRace: process A of demo_vector_clocks
RaceInit ==
    /\ r_clock = VectorClockInit("A", EmptyDict)
    /\ r_log = <<>>
    /\ r_recv = [pc |-> "idle"]
    /\ r_committed = <<>>

\* the process of SpecThreads, left alone by the other specifications
ThreadsIdle ==
    /\ t_clock = [p \in {ThisPort} |-> 0]
    /\ t_lock = "free"
    /\ t_timer = [pc |-> "sleep"]
    /\ t_server = [pc |-> "idle"]
    /\ t_main = [pc |-> "idle"]
    /\ t_serial = t_clock

\* the processes of SpecHeap
HProc == {"A", "B"}

\* VectorClockProcess.__init__ of A and B: each clock is a dict object of
\* its own
HeapInit ==
    /\ heap = <<VectorClockInit("A", EmptyDict), VectorClockInit("B", EmptyDict)>>
    /\ h_clock = [p \in HProc |-> IF p = "A" THEN 1 ELSE 2]
    /\ h_messages = {}
    /\ h_log = [p \in HProc |-> <<>>]
    /\ h_views = {}

\* __main__ of vector_process.py: VectorClock(8001, peers=[8001, 8002, 8003])
Ports == {8001, 8002, 8003}

\* the networked processes, left alone by the other specifications
NetIdle ==
    /\ n_clock = [p \in Ports |-> NetInit(p, Ports)]
    /\ n_started = {}
    /\ n_call = [op |-> "init"]

\* the object of SpecClock, left alone by the other specifications
ClockIdle ==
    /\ o_kind = "process"
    /\ o_pid = "A"
    /\ o_clock = VectorClockInit("A", EmptyDict)
    /\ o_call = [op |-> "init", before |-> o_clock, arg |-> EmptyDict,
                 ret |-> "None"]

\* VectorClockProcess.__init__ of every process: VectorClock(process_id), []
SysInit ==
    /\ vector_clock = [p \in Proc |-> VectorClockInit(p, EmptyDict)]
    /\ message_log = [p \in Proc |-> <<>>]
    /\ network = {}
    /\ calls = [p \in Proc |-> 0]
    /\ NetIdle
    /\ HeapInit
    /\ ThreadsIdle
    /\ RaceInit

\* ========================================================================
\* SpecClock: one clock object under arbitrary calls
\* ========================================================================
\* well-formed argument clocks: non-negative counters up to MaxVal
ArgClocks == Dicts(Proc, 0..MaxVal)

\* the clocks of other VectorClock objects: each holds its owner's key
OtherClocks == ArgClocks \ {EmptyDict}

\* the messages an XML-RPC caller can hand to receive_message
NetMessages ==
    {[sender_port |-> s, clock |-> c] : s \in Proc, c \in ArgClocks}
        \cup {[sender_port |-> s] : s \in Proc}

\* message.get('clock', {})
Incoming(message) ==
    IF "clock" \in DOMAIN message THEN message.clock ELSE EmptyDict

ClockInit ==
    /\ o_kind \in {"process", "net"}
    /\ o_pid \in Proc
    /\ \/ /\ o_kind = "process"
          /\ \E initial_clock \in ArgClocks :
                o_clock = VectorClockInit(o_pid, initial_clock)
       \/ /\ o_kind = "net"
          /\ \E peers \in SUBSET Proc : o_clock = NetInit(o_pid, peers)
    /\ o_call = [op |-> "init", before |-> o_clock, arg |-> EmptyDict,
                 ret |-> "None"]
    /\ SysInit

\* VectorClock.increment()
ClockIncrement ==
    /\ o_kind = "process"
    /\ o_clock[o_pid] < MaxCount
    /\ o_clock' = Increment(o_pid, o_clock)
    /\ o_call' = [op |-> "increment", before |-> o_clock, arg |-> EmptyDict,
                  ret |-> o_clock'[o_pid]]
    /\ UNCHANGED <<o_kind, o_pid>>
    /\ UNCHANGED <<sysVars, netVars, heapVars, thrVars, raceVars>>

\* VectorClock.update(received_clock)
ClockUpdate(received_clock) ==
    /\ o_kind = "process"
    /\ Max(o_clock[o_pid], Get(received_clock, o_pid)) < MaxCount
    /\ o_clock' = Update(o_pid, o_clock, received_clock)
    /\ o_call' = [op |-> "update", before |-> o_clock, arg |-> received_clock,
                  ret |-> "None"]
    /\ UNCHANGED <<o_kind, o_pid>>
    /\ UNCHANGED <<sysVars, netVars, heapVars, thrVars, raceVars>>

\* VectorClock.compare(other_clock)
ClockCompare(other_clock) ==
    /\ o_kind = "process"
    /\ o_call' = [op |-> "compare", before |-> o_clock, arg |-> other_clock,
                  ret |-> Compare(o_clock, other_clock)]
    /\ UNCHANGED <<o_kind, o_pid, o_clock>>
    /\ UNCHANGED <<sysVars, netVars, heapVars, thrVars, raceVars>>

\* vector_process.py receive_message(message)
ClockNetReceive(message) ==
    /\ o_kind = "net"
    /\ Max(o_clock[o_pid], Get(Incoming(message), o_pid)) < MaxCount
    /\ o_clock' = NetReceiveMessage(o_pid, o_clock, message)
    /\ o_call' = [op |-> "receive_message", before |-> o_clock,
                  arg |-> Incoming(message), ret |-> "True",
                  has_clock |-> "clock" \in DOMAIN message]
    /\ UNCHANGED <<o_kind, o_pid>>
    /\ UNCHANGED <<sysVars, netVars, heapVars, thrVars, raceVars>>

\* vector_process.py _increment_clock, one pass of the loop
ClockNetTick ==
    /\ o_kind = "net"
    /\ o_clock[o_pid] < MaxCount
    /\ o_clock' = NetIncrementClock(o_pid, o_clock)
    /\ o_call' = [op |-> "_increment_clock", before |-> o_clock,
                  arg |-> EmptyDict, ret |-> "None"]
    /\ UNCHANGED <<o_kind, o_pid>>
    /\ UNCHANGED <<sysVars, netVars, heapVars, thrVars, raceVars>>

ClockNext ==
    \/ ClockIncrement
    \/ \E received_clock \in ArgClocks : ClockUpdate(received_clock)
    \/ \E other_clock \in OtherClocks : ClockCompare(other_clock)
    \/ \E message \in NetMessages : ClockNetReceive(message)
    \/ ClockNetTick

SpecClock == ClockInit /\ [][ClockNext]_vars

\* ========================================================================
\* Spec: three VectorClockProcess instances and the messages between them
\* ========================================================================
\* message_content; the clock never reads it
Contents == {"hello"}

\* target_process: the default, None; stored in the message, never read
Targets == {"None"}

RECURSIVE SumOwn(_)
\* the events performed so far: each one raised its process's own entry by 1
SumOwn(S) ==
    IF S = {} THEN 0
    ELSE LET p == CHOOSE q \in S : TRUE
         IN  vector_clock[p][p] + SumOwn(S \ {p})

Events == SumOwn(Proc)

\* the dict send_message builds once the own entry is incremented
SnapshotBeforeIncrement(process_id, before, after, content, target) ==
    [content |-> content, sender |-> process_id,
     vector_clock |-> GetClock(before), target |-> target]

\* before, after: the sender's clock before and after self.vector_clock.increment()
BuildMessage(process_id, before, after, content, target) ==
    [content |-> content, sender |-> process_id,
     vector_clock |-> GetClock(after), target |-> target]

\* VectorClockProcess.send_message: increment, then the message with a copy
\* of the clock; the caller puts the returned message in flight
send_message(p, message_content, target_process) ==
    /\ Events < MaxEvents
    /\ Cardinality(network) < MaxInFlight
    /\ vector_clock' = [vector_clock EXCEPT ![p] = Increment(p, @)]
    /\ network' = network \cup
          {BuildMessage(p, vector_clock[p], vector_clock'[p], message_content,
                        target_process)}
    /\ calls' = [calls EXCEPT ![p] = @ + 1]
    /\ UNCHANGED message_log
    /\ UNCHANGED <<clockVars, netVars, heapVars, thrVars, raceVars>>

\* a log whose sequence numbers start at one
LogEntryOneBased(message, clock, log) ==
    [message |-> message, local_clock |-> GetClock(GetClock(clock)),
     timestamp |-> Len(log) + 1]

\* the entry receive_message appends to message_log
LogEntry(message, clock, log) ==
    [message |-> message, local_clock |-> GetClock(GetClock(clock)),
     timestamp |-> Len(log)]

\* VectorClockProcess.receive_message: update with the message's clock, then
\* the log entry. The message stays in flight: it may be delivered again.
receive_message(p, message) ==
    /\ message \in network
    /\ Events < MaxEvents
    /\ Len(message_log[p]) < MaxLog
    /\ vector_clock' = [vector_clock EXCEPT
                           ![p] = Update(p, @, message.vector_clock)]
    /\ message_log' = [message_log EXCEPT
                          ![p] = Append(@, LogEntry(message, vector_clock'[p], @))]
    /\ calls' = [calls EXCEPT ![p] = @ + 1]
    /\ UNCHANGED network
    /\ UNCHANGED <<clockVars, netVars, heapVars, thrVars, raceVars>>

\* VectorClockProcess.local_event
local_event(p) ==
    /\ Events < MaxEvents
    /\ vector_clock' = [vector_clock EXCEPT ![p] = Increment(p, @)]
    /\ calls' = [calls EXCEPT ![p] = @ + 1]
    /\ UNCHANGED <<message_log, network>>
    /\ UNCHANGED <<clockVars, netVars, heapVars, thrVars, raceVars>>

\* the transport drops a message
Drop(message) ==
    /\ message \in network
    /\ network' = network \ {message}
    /\ UNCHANGED <<vector_clock, message_log, calls>>
    /\ UNCHANGED <<clockVars, netVars, heapVars, thrVars, raceVars>>

Init == ClockIdle /\ SysInit

Next ==
    \/ \E p \in Proc, c \in Contents, t \in Targets : send_message(p, c, t)
    \/ \E p \in Proc, m \in network : receive_message(p, m)
    \/ \E p \in Proc : local_event(p)
    \/ \E m \in network : Drop(m)

Spec == Init /\ [][Next]_vars

\* ========================================================================
\* SpecNet: the processes of vector_process.py, one per port
\* ========================================================================
\* how remote_server.receive_message(message) ends in send_message: it
\* returns, raises ConnectionRefusedError, or raises another Exception.
\* (xmlrpc.client marshals a dict only if its keys are strings: with integer
\* ports the call raises TypeError before it connects, the third outcome.)
Outcomes == {"delivered", "refused", "error"}

RECURSIVE NetSumOwn(_)
\* the sum of the processes' own entries
NetSumOwn(S) ==
    IF S = {} THEN 0
    ELSE LET p == CHOOSE q \in S : TRUE
         IN  n_clock[p][p] + NetSumOwn(S \ {p})

\* what send_message returns to its caller: the try branch and both except
\* clauses only print, and the function has no return statement
NetSendReturn(outcome) == "None"

\* the message send_message builds under the lock
NetBuildMessage(port, clock) ==
    [sender_port |-> port, clock |-> clock]

\* VectorClock.__init__ on every port, with or without peers
NetSysInit ==
    /\ \E peers \in [Ports -> {{}, Ports}] :
          n_clock = [p \in Ports |-> NetInit(p, peers[p])]
    /\ n_started = {}
    /\ n_call = [op |-> "init"]

\* start(): the server thread and the timer thread run from now on
NetStart(port) ==
    /\ port \notin n_started
    /\ n_started' = n_started \cup {port}
    /\ UNCHANGED <<n_clock, n_call>>
    /\ UNCHANGED <<clockVars, sysVars, heapVars, thrVars, raceVars>>

\* _increment_clock: one pass of the timer thread's loop
NetTick(port) ==
    /\ port \in n_started
    /\ NetSumOwn(Ports) < MaxNetEvents
    /\ n_clock' = [n_clock EXCEPT ![port] = NetIncrementClock(port, @)]
    /\ UNCHANGED <<n_started, n_call>>
    /\ UNCHANGED <<clockVars, sysVars, heapVars, thrVars, raceVars>>

\* send_message(remote_port): the message is a copy of the clock taken under
\* the lock; the transport call then runs receive_message on the remote
\* process, or raises
NetSend(port, remote_port, outcome) ==
    LET message == NetBuildMessage(port, n_clock[port])
    IN  /\ \/ /\ outcome = "delivered"
              /\ remote_port \in n_started
              /\ NetSumOwn(Ports) < MaxNetEvents
              /\ n_clock' = [n_clock EXCEPT ![remote_port] =
                                NetReceiveMessage(remote_port, @, message)]
           \/ /\ outcome = "refused"
              /\ remote_port \notin n_started
              /\ UNCHANGED n_clock
           \/ /\ outcome = "error"
              /\ UNCHANGED n_clock
        /\ n_call' = [op |-> "send_message", port |-> port,
                      remote_port |-> remote_port, message |-> message,
                      outcome |-> outcome, ret |-> NetSendReturn(outcome)]
        /\ UNCHANGED n_started
        /\ UNCHANGED <<clockVars, sysVars, heapVars, thrVars, raceVars>>

NetSysNext ==
    \/ \E port \in Ports : NetStart(port)
    \/ \E port \in Ports : NetTick(port)
    \/ \E port \in Ports, remote_port \in Ports, outcome \in Outcomes :
          NetSend(port, remote_port, outcome)

NetSpecInit ==
    /\ ClockIdle
    /\ vector_clock = [p \in Proc |-> VectorClockInit(p, EmptyDict)]
    /\ message_log = [p \in Proc |-> <<>>]
    /\ network = {}
    /\ calls = [p \in Proc |-> 0]
    /\ NetSysInit
    /\ HeapInit
    /\ ThreadsIdle
    /\ RaceInit

SpecNet == NetSpecInit /\ [][NetSysNext]_vars

\* ========================================================================
\* SpecHeap: VectorClockProcess with its dicts as objects
\* ========================================================================
\* a returned reference to self.clock itself instead of to a copy
HGetClockReturnsSelf(h, ref) == [heap |-> h, ref |-> ref]

\* VectorClock.get_clock on the clock object ref: self.clock.copy() is a new
\* object with the clock's content
HGetClock(h, ref) == [heap |-> Append(h, h[ref]), ref |-> Len(h) + 1]

\* VectorClock.increment on the clock object ref: self.clock[pid] += 1 in place
HIncrement(h, p, ref) == [h EXCEPT ![ref] = Increment(p, @)]

\* VectorClockProcess.local_event
HLocalEvent(p) ==
    /\ heap[h_clock[p]][p] < MaxCount
    /\ heap' = HIncrement(heap, p, h_clock[p])
    /\ UNCHANGED <<h_clock, h_messages, h_log, h_views>>
    /\ UNCHANGED <<clockVars, sysVars, netVars, thrVars, raceVars>>

\* VectorClockProcess.send_message: increment in place, then the message
\* whose 'vector_clock' is what get_clock() returns
HSend(p, content, target) ==
    /\ heap[h_clock[p]][p] < MaxCount
    /\ Len(heap) < MaxObj
    /\ LET got == HGetClock(HIncrement(heap, p, h_clock[p]), h_clock[p])
       IN  /\ heap' = got.heap
           /\ h_messages' = h_messages \cup
                 {[content |-> content, sender |-> p,
                   vector_clock |-> got.ref, target |-> target]}
    /\ UNCHANGED <<h_clock, h_log, h_views>>
    /\ UNCHANGED <<clockVars, sysVars, netVars, thrVars, raceVars>>

\* VectorClockProcess.receive_message: update writes self.clock in place
\* from the dict message['vector_clock'] refers to; the log entry's
\* local_clock is get_clock().copy(), a new object (the copy get_clock made
\* on the way is referred to by nothing)
HReceive(p, message) ==
    /\ message \in h_messages
    /\ Max(heap[h_clock[p]][p], Get(heap[message.vector_clock], p)) < MaxCount
    /\ Len(heap) < MaxObj
    /\ LET updated == [heap EXCEPT ![h_clock[p]] =
                          Update(p, @, heap[message.vector_clock])]
           got     == HGetClock(updated, h_clock[p])
       IN  /\ heap' = Append(updated, got.heap[got.ref])
           /\ h_log' = [h_log EXCEPT ![p] = Append(@,
                 [message |-> message, local_clock |-> Len(updated) + 1,
                  timestamp |-> Len(@)])]
    /\ UNCHANGED <<h_clock, h_messages, h_views>>
    /\ UNCHANGED <<clockVars, sysVars, netVars, thrVars, raceVars>>

\* VectorClockProcess.get_clock_state: the caller keeps what get_clock returns
HGetClockState(p) ==
    /\ Len(heap) < MaxObj
    /\ LET got == HGetClock(heap, h_clock[p])
       IN  /\ heap' = got.heap
           /\ h_views' = h_views \cup {[of |-> p, ref |-> got.ref]}
    /\ UNCHANGED <<h_clock, h_messages, h_log>>
    /\ UNCHANGED <<clockVars, sysVars, netVars, thrVars, raceVars>>

\* what a caller writes into a mapping it was given: a counter no clock of
\* this specification holds
CallerValues == {7}

\* the caller changes a mapping it was given: view[k] = v
HCallerWrites(view, k, v) ==
    /\ view \in h_views
    /\ heap' = [heap EXCEPT ![view.ref] =
                  [j \in DOMAIN @ \cup {k} |-> IF j = k THEN v ELSE @[j]]]
    /\ heap' # heap
    /\ UNCHANGED <<h_clock, h_messages, h_log, h_views>>
    /\ UNCHANGED <<clockVars, sysVars, netVars, thrVars, raceVars>>

HeapSpecInit ==
    /\ ClockIdle
    /\ vector_clock = [p \in Proc |-> VectorClockInit(p, EmptyDict)]
    /\ message_log = [p \in Proc |-> <<>>]
    /\ network = {}
    /\ calls = [p \in Proc |-> 0]
    /\ NetIdle
    /\ HeapInit
    /\ ThreadsIdle
    /\ RaceInit

HeapNext ==
    \/ \E p \in HProc : HLocalEvent(p)
    \/ \E p \in HProc, c \in Contents, t \in Targets : HSend(p, c, t)
    \/ \E p \in HProc, m \in h_messages : HReceive(p, m)
    \/ \E p \in HProc : HGetClockState(p)
    \/ \E view \in h_views, k \in HProc, v \in CallerValues : HCallerWrites(view, k, v)

SpecHeap == HeapSpecInit /\ [][HeapNext]_vars

\* ========================================================================
\* SpecThreads: the threads of one process of vector_process.py
\* ========================================================================
\* The process on ThisPort after start(): the timer thread runs
\* _increment_clock, the server thread runs receive_message for one request
\* at a time (SimpleXMLRPCServer serves requests one after the other), and a
\* third thread calls send_message.  Every read and every write of
\* self.clock is a step of its own, so that the model itself says what the
\* lock is for.

\* the ports that occur as keys of the clocks this process is sent
ThreadPeers == {8001, 8002}

\* the messages the peer on 8002 sends: with a clock, or without one
ThreadMessages ==
    {[sender_port |-> 8002, clock |-> c] : c \in Dicts(ThreadPeers, 0..MaxVal)}
        \cup {[sender_port |-> 8002]}

\* a lock that lets every thread in
LockIgnored(lock) == TRUE

\* `with self.lock:` is entered only while no thread holds the lock
LockFree(lock) == lock = "free"

\* the lock kept through the transport call
MainLockHeldAtCall == "main"

\* send_message leaves its `with self.lock:` block (lines 46-50) before the
\* try block of the transport call (lines 51-57): the lock during the call
MainLockAtCall == "free"

\* self.clock[self.port] = value
SetOwn(port, clock, value) ==
    [k \in DOMAIN clock \cup {port} |-> IF k = port THEN value ELSE clock[k]]

ThreadsInit ==
    /\ \E peers \in {{}, ThreadPeers} : t_clock = NetInit(ThisPort, peers)
    /\ t_lock = "free"
    /\ t_timer = [pc |-> "sleep"]
    /\ t_server = [pc |-> "idle"]
    /\ t_main = [pc |-> "idle"]
    /\ t_serial = t_clock

\* ---- the timer thread: _increment_clock's `with self.lock:` block
TimerAcquire ==
    /\ t_timer.pc = "sleep"
    /\ LockFree(t_lock)
    /\ t_serial[ThisPort] < MaxNetEvents
    /\ t_lock' = "timer"
    /\ t_timer' = [pc |-> "locked"]
    /\ t_serial' = NetIncrementClock(ThisPort, t_serial)
    /\ UNCHANGED <<t_clock, t_server, t_main>>
    /\ UNCHANGED <<clockVars, sysVars, netVars, heapVars, raceVars>>

\* self.clock[self.port] += 1: the read
TimerRead ==
    /\ t_timer.pc = "locked"
    /\ t_timer' = [pc |-> "read", tmp |-> Get(t_clock, ThisPort)]
    /\ UNCHANGED <<t_clock, t_lock, t_server, t_main, t_serial>>
    /\ UNCHANGED <<clockVars, sysVars, netVars, heapVars, raceVars>>

\* self.clock[self.port] += 1: the write
TimerWrite ==
    /\ t_timer.pc = "read"
    /\ t_clock' = SetOwn(ThisPort, t_clock, t_timer.tmp + 1)
    /\ t_timer' = [pc |-> "wrote"]
    /\ UNCHANGED <<t_lock, t_server, t_main, t_serial>>
    /\ UNCHANGED <<clockVars, sysVars, netVars, heapVars, raceVars>>

\* the end of the block, then time.sleep(1)
TimerRelease ==
    /\ t_timer.pc = "wrote"
    /\ t_lock' = "free"
    /\ t_timer' = [pc |-> "sleep"]
    /\ UNCHANGED <<t_clock, t_server, t_main, t_serial>>
    /\ UNCHANGED <<clockVars, sysVars, netVars, heapVars, raceVars>>

\* ---- the server thread: receive_message(message)
\* the request is a peer's, or it is this process's own send_message to its
\* own port, which waits for the answer
ServerAcquire(message, from_main) ==
    /\ t_server.pc = "idle"
    /\ LockFree(t_lock)
    /\ IF from_main
       THEN /\ t_main.pc = "calling"
            /\ t_main.remote_port = ThisPort
            /\ message = t_main.message
       ELSE message \in ThreadMessages
    /\ Max(t_serial[ThisPort], Get(Incoming(message), ThisPort)) < MaxNetEvents
    /\ t_lock' = "server"
    /\ t_server' = [pc |-> "merging", incoming |-> Incoming(message),
                    pending |-> DOMAIN Incoming(message), from_main |-> from_main]
    /\ t_main' = IF from_main THEN [t_main EXCEPT !.pc = "served"] ELSE t_main
    /\ t_serial' = NetReceiveMessage(ThisPort, t_serial, message)
    /\ UNCHANGED <<t_clock, t_timer>>
    /\ UNCHANGED <<clockVars, sysVars, netVars, heapVars, raceVars>>

\* one pass of the loop: self.clock[port] = max(self.clock.get(port, 0), time)
ServerMergeKey(port) ==
    /\ t_server.pc = "merging"
    /\ port \in t_server.pending
    /\ t_clock' = SetOwn(port, t_clock, Max(Get(t_clock, port), t_server.incoming[port]))
    /\ t_server' = [t_server EXCEPT !.pending = @ \ {port}]
    /\ UNCHANGED <<t_lock, t_timer, t_main, t_serial>>
    /\ UNCHANGED <<clockVars, sysVars, netVars, heapVars, raceVars>>

\* after the loop, self.clock[self.port] += 1: the read
ServerRead ==
    /\ t_server.pc = "merging"
    /\ t_server.pending = {}
    /\ t_server' = [pc |-> "read", tmp |-> Get(t_clock, ThisPort),
                    from_main |-> t_server.from_main]
    /\ UNCHANGED <<t_clock, t_lock, t_timer, t_main, t_serial>>
    /\ UNCHANGED <<clockVars, sysVars, netVars, heapVars, raceVars>>

\* self.clock[self.port] += 1: the write
ServerWrite ==
    /\ t_server.pc = "read"
    /\ t_clock' = SetOwn(ThisPort, t_clock, t_server.tmp + 1)
    /\ t_server' = [pc |-> "wrote", from_main |-> t_server.from_main]
    /\ UNCHANGED <<t_lock, t_timer, t_main, t_serial>>
    /\ UNCHANGED <<clockVars, sysVars, netVars, heapVars, raceVars>>

\* the end of the block and return True; a send_message that waited for this
\* answer returns
ServerRelease ==
    /\ t_server.pc = "wrote"
    /\ t_lock' = "free"
    /\ t_server' = [pc |-> "idle"]
    /\ t_main' = IF t_server.from_main THEN [pc |-> "idle"] ELSE t_main
    /\ UNCHANGED <<t_clock, t_timer, t_serial>>
    /\ UNCHANGED <<clockVars, sysVars, netVars, heapVars, raceVars>>

\* ---- the sending thread: send_message(remote_port)
MainAcquire(remote_port) ==
    /\ t_main.pc = "idle"
    /\ LockFree(t_lock)
    /\ t_lock' = "main"
    /\ t_main' = [pc |-> "locked", remote_port |-> remote_port]
    /\ UNCHANGED <<t_clock, t_timer, t_server, t_serial>>
    /\ UNCHANGED <<clockVars, sysVars, netVars, heapVars, raceVars>>

\* message = {'sender_port': self.port, 'clock': dict(self.clock)}
MainCopy ==
    /\ t_main.pc = "locked"
    /\ t_main' = [pc |-> "copied", remote_port |-> t_main.remote_port,
                  message |-> NetBuildMessage(ThisPort, t_clock)]
    /\ UNCHANGED <<t_clock, t_lock, t_timer, t_server, t_serial>>
    /\ UNCHANGED <<clockVars, sysVars, netVars, heapVars, raceVars>>

\* the end of the `with` block; remote_server.receive_message(message) is
\* called next
MainRelease ==
    /\ t_main.pc = "copied"
    /\ t_lock' = MainLockAtCall
    /\ t_main' = [t_main EXCEPT !.pc = "calling"]
    /\ UNCHANGED <<t_clock, t_timer, t_server, t_serial>>
    /\ UNCHANGED <<clockVars, sysVars, netVars, heapVars, raceVars>>

\* the transport call ends: a peer answered, or the call raised and one of the
\* except clauses printed.  A call to this process's own port that is
\* delivered ends in ServerRelease instead.
MainReturn(outcome) ==
    /\ t_main.pc = "calling"
    /\ t_main.remote_port = ThisPort => outcome = "error"
    /\ t_lock' = IF t_lock = "main" THEN "free" ELSE t_lock
    /\ t_main' = [pc |-> "idle"]
    /\ UNCHANGED <<t_clock, t_timer, t_server, t_serial>>
    /\ UNCHANGED <<clockVars, sysVars, netVars, heapVars, raceVars>>

ThreadsNext ==
    \/ TimerAcquire
    \/ TimerRead
    \/ TimerWrite
    \/ TimerRelease
    \/ \E message \in ThreadMessages : ServerAcquire(message, FALSE)
    \/ ServerAcquire(t_main.message, TRUE)
    \/ \E port \in ThreadPeers : ServerMergeKey(port)
    \/ ServerRead
    \/ ServerWrite
    \/ ServerRelease
    \/ \E remote_port \in ThreadPeers : MainAcquire(remote_port)
    \/ MainCopy
    \/ MainRelease
    \/ \E outcome \in Outcomes : MainReturn(outcome)

ThreadsSpecInit ==
    /\ ClockIdle
    /\ vector_clock = [p \in Proc |-> VectorClockInit(p, EmptyDict)]
    /\ message_log = [p \in Proc |-> <<>>]
    /\ network = {}
    /\ calls = [p \in Proc |-> 0]
    /\ NetIdle
    /\ HeapInit
    /\ ThreadsInit
    /\ RaceInit

SpecThreads == ThreadsSpecInit /\ [][ThreadsNext]_vars

\* ========================================================================
\* SpecRace: one VectorClockProcess whose methods are called from two threads
\* ========================================================================
\* Process A.  One thread is in receive_message, taken statement by
\* statement: the call of self.vector_clock.update, then the append to
\* self.message_log.  A second thread calls local_event and send_message.
\* VectorClockProcess has no lock: nothing orders the second thread's calls
\* against the statements of the first.

\* the messages process B's send_message builds
RaceMessages ==
    {BuildMessage("B", c, c, "hello", "None") :
        c \in {d \in Dicts(HProc, 0..MaxVal) : "B" \in DOMAIN d /\ d["B"] >= 1}}

\* receive_message up to and including self.vector_clock.update(...)
RaceReceiveUpdate(message) ==
    /\ r_recv.pc = "idle"
    /\ r_clock["A"] < MaxEvents
    /\ Len(r_log) < MaxLog
    /\ Get(message.vector_clock, "A") <= r_clock["A"]
    /\ r_clock' = Update("A", r_clock, message.vector_clock)
    /\ r_recv' = [pc |-> "updated", message |-> message]
    /\ r_committed' = Append(r_committed, r_clock')
    /\ UNCHANGED r_log
    /\ UNCHANGED <<clockVars, sysVars, netVars, heapVars, thrVars>>

\* the rest of receive_message: self.message_log.append({...}), return True
RaceReceiveLog ==
    /\ r_recv.pc = "updated"
    /\ r_log' = Append(r_log, LogEntry(r_recv.message, r_clock, r_log))
    /\ r_recv' = [pc |-> "idle"]
    /\ UNCHANGED <<r_clock, r_committed>>
    /\ UNCHANGED <<clockVars, sysVars, netVars, heapVars, thrVars>>

\* local_event, or send_message, on the second thread: for the process's
\* state either one is self.vector_clock.increment()
RaceIncrement ==
    /\ r_clock["A"] < MaxEvents
    /\ r_clock' = Increment("A", r_clock)
    /\ UNCHANGED <<r_log, r_recv, r_committed>>
    /\ UNCHANGED <<clockVars, sysVars, netVars, heapVars, thrVars>>

RaceNext ==
    \/ \E message \in RaceMessages : RaceReceiveUpdate(message)
    \/ RaceReceiveLog
    \/ RaceIncrement

RaceSpecInit ==
    /\ ClockIdle
    /\ vector_clock = [p \in Proc |-> VectorClockInit(p, EmptyDict)]
    /\ message_log = [p \in Proc |-> <<>>]
    /\ network = {}
    /\ calls = [p \in Proc |-> 0]
    /\ NetIdle
    /\ HeapInit
    /\ ThreadsIdle
    /\ RaceInit

SpecRace == RaceSpecInit /\ [][RaceNext]_vars

\* ------------------------------------------------------------------------
\* Claims settled under SpecClock
\* ------------------------------------------------------------------------

\* C1: after update(received_clock) (vector_clock_process.py) and after
\* receive_message (vector_process.py) the clock's key set is the union of
\* the local and the received key sets, every key other than the owner's
\* holds max(local[k], received[k]) with a missing entry read as 0, and the
\* owner's entry holds max(local[owner], received[owner]) + 1; a key never
\* seen before is added.
C1_MergeOnReceipt ==
    o_call.op \in {"update", "receive_message"} =>
        LET local    == o_call.before
            received == o_call.arg
        IN  /\ DOMAIN o_clock = DOMAIN local \cup DOMAIN received
            /\ \A k \in DOMAIN o_clock \ {o_pid} :
                  o_clock[k] = Max(Get(local, k), Get(received, k))
            /\ o_clock[o_pid]
                  = Max(Get(local, o_pid), Get(received, o_pid)) + 1

\* an update that met a key it had never seen, a key where the local value
\* is the larger one and a key where the received value is the larger one
C1_Witness ==
    /\ o_call.op = "update"
    /\ DOMAIN o_call.arg \ DOMAIN o_call.before # {}
    /\ \E k \in DOMAIN o_call.before \cap DOMAIN o_call.arg :
          o_call.before[k] > o_call.arg[k]
    /\ \E k \in DOMAIN o_call.before \cap DOMAIN o_call.arg :
          o_call.before[k] < o_call.arg[k]

\* some entry of a is strictly less / strictly greater than b's, over the
\* union of the keys with a missing entry read as 0
SomeLess(a, b) == \E k \in DOMAIN a \cup DOMAIN b : Get(a, k) < Get(b, k)
SomeGreater(a, b) == \E k \in DOMAIN a \cup DOMAIN b : Get(a, k) > Get(b, k)

\* C2 (as claimed): compare returns CONCURRENT exactly when some entry of
\* self is strictly less than other's and some entry is strictly greater;
\* BEFORE iff self <= other pointwise and the clocks differ; AFTER iff the
\* reverse; EQUAL iff the maps are identical key for key.
C2_CompareAsClaimed ==
    o_call.op = "compare" =>
        LET a == o_call.before
            b == o_call.arg
        IN  /\ (o_call.ret = CONCURRENT) <=> (SomeLess(a, b) /\ SomeGreater(a, b))
            /\ (o_call.ret = BEFORE) <=> (~SomeGreater(a, b) /\ SomeLess(a, b))
            /\ (o_call.ret = AFTER) <=> (~SomeLess(a, b) /\ SomeGreater(a, b))
            /\ (o_call.ret = EQUAL) <=> (a = b)

\* C3: compare(A, B) is BEFORE if and only if compare(B, A) is AFTER, and
\* compare(A, A) is EQUAL.
C3_CompareAntisymmetric ==
    o_call.op = "compare" =>
        /\ (o_call.ret = BEFORE) <=> (Compare(o_call.arg, o_call.before) = AFTER)
        /\ (o_call.arg = o_call.before) => (o_call.ret = EQUAL)

\* a compare that answered BEFORE on clocks with different key sets
C3_Witness ==
    /\ o_call.op = "compare"
    /\ o_call.ret = BEFORE
    /\ DOMAIN o_call.arg # DOMAIN o_call.before
    /\ Compare(o_call.arg, o_call.before) = AFTER

\* C6: across increment, update (local_event, send_message and
\* receive_message change the clock through these two) and the networked
\* receive_message and _increment_clock, with received clocks holding
\* non-negative counters, no entry of the clock decreases, no key is removed
\* and the owner's key is present.
C6_Monotonic ==
    [][ /\ DOMAIN o_clock \subseteq DOMAIN o_clock'
        /\ \A k \in DOMAIN o_clock : o_clock'[k] >= o_clock[k]
        /\ o_pid' \in DOMAIN o_clock' ]_vars

\* a merge of a received clock that is behind the local one in some entry
\* and ahead of it in another
C6_Witness ==
    /\ o_call.op \in {"update", "receive_message"}
    /\ \E k \in DOMAIN o_call.arg \cap DOMAIN o_call.before :
          /\ o_call.arg[k] < o_call.before[k]
          /\ o_clock[k] >= o_call.before[k]
    /\ \E k \in DOMAIN o_call.arg : Get(o_call.before, k) < o_call.arg[k]

\* ------------------------------------------------------------------------
\* Claims settled under Spec
\* ------------------------------------------------------------------------

\* C4: send_message increments the sender's own entry before it takes the
\* snapshot: the one message it returns carries the sender's clock as it is
\* right after the call, and its entry for the sender is one more than the
\* sender's entry before the call.
C4_SendStampsAfterIncrement ==
    [][ \A p \in Proc, c \in Contents, t \in Targets :
            send_message(p, c, t) =>
                \E m \in network' :
                    /\ network' \ network = {m}
                    /\ m.sender = p
                    /\ m.vector_clock = vector_clock'[p]
                    /\ m.vector_clock[p] = vector_clock[p][p] + 1 ]_vars

\* a message sent by a process that had received one before: its stamp is
\* the sender's current clock, with the sender's entry at 2 or more
C4_Witness ==
    \E m \in network :
        /\ m.vector_clock = vector_clock[m.sender]
        /\ m.vector_clock[m.sender] >= 2
        /\ DOMAIN m.vector_clock # {m.sender}

\* C7: a message built by send_message on one process and applied by
\* receive_message on another compares BEFORE the receiver's clock right
\* after that receive, whatever came before and whether the message was
\* delayed, overtaken, or delivered more than once.
C7_StampBeforeReceiver ==
    [][ \A p \in Proc, m \in network :
            (m.sender # p /\ receive_message(p, m)) =>
                Compare(m.vector_clock, vector_clock'[p]) = BEFORE ]_vars

\* the example: B, at {B:0}, received A's first message {A:1}
C7_Witness ==
    \E i \in 1..Len(message_log["B"]) :
        /\ message_log["B"][i].message.sender = "A"
        /\ message_log["B"][i].message.vector_clock = [k \in {"A"} |-> 1]
        /\ message_log["B"][i].local_clock = [k \in {"A", "B"} |-> 1]

\* b received m1 (log entry e) and later sent the message of c's log entry
\* f: b's own entry grows with every operation of b, so the send came after
\* the receive exactly when the stamp's entry for b exceeds the one logged
SentAfterReceiving(b, e, f) ==
    /\ f.message.sender = b
    /\ f.message.vector_clock[b] > e.local_clock[b]

\* C8: if A sends m1, B receives m1 and later sends m2, and C receives m2,
\* then m1's stamp compares BEFORE C's clock after receiving m2 and BEFORE
\* every later clock of C.
C8_TransitiveCausality ==
    \A b \in Proc, c \in Proc :
        \A i \in 1..Len(message_log[b]), j \in 1..Len(message_log[c]) :
            LET e == message_log[b][i]
                f == message_log[c][j]
            IN  SentAfterReceiving(b, e, f) =>
                    /\ Compare(e.message.vector_clock, f.local_clock) = BEFORE
                    /\ Compare(e.message.vector_clock, vector_clock[c]) = BEFORE

\* the three-node example: {A:1} reached C through B, C is at {A:1,B:2,C:1}
C8_Witness ==
    /\ \E i \in 1..Len(message_log["B"]), j \in 1..Len(message_log["C"]) :
          /\ message_log["B"][i].message.sender = "A"
          /\ message_log["B"][i].message.vector_clock = [k \in {"A"} |-> 1]
          /\ SentAfterReceiving("B", message_log["B"][i], message_log["C"][j])
    /\ vector_clock["C"] = [k \in Proc |-> IF k = "B" THEN 2 ELSE 1]

RECURSIVE Origins(_)
\* the processes a message originates from: its sender, and the origins of
\* every message the sender had received before it sent this one
Origins(m) ==
    {m.sender} \cup
        UNION { Origins(message_log[m.sender][i].message) :
                  i \in { n \in 1..Len(message_log[m.sender]) :
                            message_log[m.sender][n].local_clock[m.sender]
                                < m.vector_clock[m.sender] } }

\* the processes from which p has received a message, directly or through
\* other processes
Heard(p) ==
    UNION { Origins(message_log[p][i].message) : i \in 1..Len(message_log[p]) }

\* C9: two processes that have each performed at least one event, neither
\* of which has received a message that originates from the other, have
\* clocks that compare CONCURRENT in both directions.
C9_IndependentAreConcurrent ==
    \A p \in Proc, q \in Proc :
        ( /\ p # q
          /\ vector_clock[p][p] >= 1
          /\ vector_clock[q][q] >= 1
          /\ q \notin Heard(p)
          /\ p \notin Heard(q) ) =>
            /\ Compare(vector_clock[p], vector_clock[q]) = CONCURRENT
            /\ Compare(vector_clock[q], vector_clock[p]) = CONCURRENT

\* A and B never heard of each other, though A has heard from C
C9_Witness ==
    /\ vector_clock["A"]["A"] >= 1
    /\ vector_clock["B"]["B"] >= 1
    /\ "B" \notin Heard("A")
    /\ "A" \notin Heard("B")
    /\ "C" \in Heard("A")

\* ------------------------------------------------------------------------
\* Claims settled under SpecNet
\* ------------------------------------------------------------------------

\* C5 (as claimed): a send_message call whose transport call fails has
\* committed the increment of the sender's own entry: the sender's own entry
\* after the call is one more than before it, and the stamp handed to the
\* transport is the clock after that increment.
C5_FailedSendCommitsIncrement ==
    [][ \A port \in Ports, remote_port \in Ports :
            \A outcome \in {"refused", "error"} :
                NetSend(port, remote_port, outcome) =>
                    /\ n_clock'[port][port] = n_clock[port][port] + 1
                    /\ n_call'.message.clock = n_clock'[port]
                    /\ n_call'.message.clock[port] = n_clock[port][port] + 1
      ]_vars

\* ------------------------------------------------------------------------
\* Claims settled under SpecHeap
\* ------------------------------------------------------------------------

\* an operation of process p on its own clock
HOperationOf(p) ==
    \/ HLocalEvent(p)
    \/ \E c \in Contents, t \in Targets : HSend(p, c, t)
    \/ \E m \in h_messages : HReceive(p, m)

\* C10: a message's stamp is an independent copy of the sender's clock: no
\* later local_event, send_message or receive_message on the sender changes
\* the clock field of a message send_message has built, and changing a
\* mapping that get_clock / get_clock_state returned does not change the
\* process's clock.
C10_StampIsACopy ==
    [][ /\ \A m \in h_messages :
              HOperationOf(m.sender) =>
                  heap'[m.vector_clock] = heap[m.vector_clock]
        /\ (\E view \in h_views, k \in HProc, v \in CallerValues :
                HCallerWrites(view, k, v)) =>
              \A p \in HProc : heap'[h_clock[p]] = heap[h_clock[p]] ]_vars

\* a message whose sender has moved on since it was built, and a mapping
\* returned by get_clock_state that its caller has changed
C10_Witness ==
    /\ \E m \in h_messages :
          heap[m.vector_clock][m.sender] < heap[h_clock[m.sender]][m.sender]
    /\ \E view \in h_views :
          \E k \in DOMAIN heap[view.ref] :
              heap[view.ref][k] > Get(heap[h_clock[view.of]], k)

\* ------------------------------------------------------------------------
\* Claims settled under SpecThreads
\* ------------------------------------------------------------------------

\* no thread is inside a `with self.lock:` block
Quiescent ==
    /\ t_timer.pc = "sleep"
    /\ t_server.pc = "idle"
    /\ t_main.pc \in {"idle", "calling"}

\* C11: whenever no operation of the networked process is under way, its
\* clock equals the clock that the operations done so far give when they run
\* one at a time, in the order in which they took the lock (no increment is
\* lost and no merge is applied in part); and the stamp send_message takes
\* is that serial clock at the moment of the copy, never a clock with a merge
\* half applied.
C11_Serializable ==
    /\ Quiescent => t_clock = t_serial
    /\ t_main.pc = "copied" => t_main.message.clock = t_serial

\* a send whose call is still out, while ticks and a merge from 8002 went on
\* after its stamp was taken
C11_Witness ==
    /\ Quiescent
    /\ t_main.pc = "calling"
    /\ t_clock[ThisPort] >= 2
    /\ Get(t_clock, 8002) >= 1
    /\ t_main.message.clock # t_clock

\* C17: while the transport call of send_message is in progress the sending
\* thread does not hold the lock, so the timer thread and the server thread
\* (also when it delivers the message this process sent to its own port) are
\* not kept out by the send.
C17_NoLockDuringCall ==
    t_main.pc \in {"calling", "served"} => t_lock # "main"

\* the server thread holds the lock to deliver the message this process sent
\* to its own port, while that send waits for the answer
C17_Witness ==
    /\ t_main.pc = "served"
    /\ t_main.remote_port = ThisPort
    /\ t_lock = "server"
    /\ t_server.from_main

\* ------------------------------------------------------------------------
\* Further claims settled under SpecClock
\* ------------------------------------------------------------------------

\* C12: a receive_message call whose message has no clock field is rejected
\* with an error to the caller and leaves the receiver's clock as it was
\* before the call: no key merged, the own entry not incremented.
C12_MalformedRejected ==
    (o_call.op = "receive_message" /\ ~o_call.has_clock) =>
        /\ o_call.ret # "True"
        /\ o_clock = o_call.before

\* C15: the per-key-max merge, taken before the owner's increment, gives the
\* same mapping whichever of the two clocks is merged into the other, and
\* merging the clock just received a second time changes no entry other than
\* the owner's own.
C15_MergeCommutesAndRepeats ==
    /\ o_call.op = "update" =>
          /\ MergeMax(o_call.before, o_call.arg) = MergeMax(o_call.arg, o_call.before)
          /\ o_clock = Increment(o_pid, MergeMax(o_call.arg, o_call.before))
          /\ LET again == Update(o_pid, o_clock, o_call.arg)
             IN  /\ DOMAIN again = DOMAIN o_clock
                 /\ \A k \in DOMAIN o_clock \ {o_pid} : again[k] = o_clock[k]
    /\ o_call.op = "receive_message" =>
          /\ NetMerge(o_call.before, o_call.arg) = NetMerge(o_call.arg, o_call.before)
          /\ LET again == NetReceiveMessage(o_pid, o_clock, [clock |-> o_call.arg])
             IN  /\ DOMAIN again = DOMAIN o_clock
                 /\ \A k \in DOMAIN o_clock \ {o_pid} : again[k] = o_clock[k]

\* an update whose two clocks each lead in some entry and do not have the
\* same keys
C15_Witness ==
    /\ o_call.op = "update"
    /\ DOMAIN o_call.arg # DOMAIN o_call.before
    /\ \E k \in DOMAIN o_call.arg \ {o_pid} : Get(o_call.before, k) < o_call.arg[k]
    /\ \E k \in DOMAIN o_call.before \ {o_pid} : Get(o_call.arg, k) < o_call.before[k]

\* ------------------------------------------------------------------------
\* Further claims settled under SpecNet
\* ------------------------------------------------------------------------

\* C14: a send_message call whose transport call failed (nothing listens on
\* the peer's port, or any other error) gives its caller a result that
\* differs from the result of a send that was delivered.
C14_FailureIsReported ==
    (n_call.op = "send_message" /\ n_call.outcome \in {"refused", "error"}) =>
        n_call.ret # NetSendReturn("delivered")

\* ------------------------------------------------------------------------
\* Further claims settled under Spec
\* ------------------------------------------------------------------------

\* C13: after every step, each message_log entry's 'timestamp' is its index
\* in the log (from 0) and the entries' own-entry values grow with the index;
\* a step changes a process's log only by appending one entry, in a
\* receive_message call of that process, and the entry holds the received
\* message and the clock right after that call's merge and increment.
C13_LogFollowsReceives ==
    [][ \A p \in Proc :
          /\ \A i \in 1..Len(message_log'[p]) :
                /\ message_log'[p][i].timestamp = i - 1
                /\ \A j \in 1..(i - 1) :
                      message_log'[p][j].local_clock[p] < message_log'[p][i].local_clock[p]
          /\ \/ message_log'[p] = message_log[p]
             \/ \E m \in network :
                   /\ receive_message(p, m)
                   /\ Len(message_log'[p]) = Len(message_log[p]) + 1
                   /\ SubSeq(message_log'[p], 1, Len(message_log[p])) = message_log[p]
                   /\ LET entry == message_log'[p][Len(message_log'[p])]
                      IN  /\ entry.message = m
                          /\ entry.local_clock = Update(p, vector_clock[p], m.vector_clock)
                          /\ entry.local_clock = vector_clock'[p] ]_vars

\* a log of two entries with an event of the process between the two receives
C13_Witness ==
    \E p \in Proc :
        /\ Len(message_log[p]) = 2
        /\ message_log[p][2].local_clock[p] >= message_log[p][1].local_clock[p] + 2
        /\ message_log[p][2].timestamp = 1

\* C18: no process's clock, and no message in flight, holds for a process q
\* an entry greater than q's own entry for itself.
C18_NobodyAheadOfOwner ==
    \A q \in Proc :
        /\ \A p \in Proc : Get(vector_clock[p], q) <= vector_clock[q][q]
        /\ \A m \in network : Get(m.vector_clock, q) <= vector_clock[q][q]

\* a process that holds another's entry at the owner's present value, and a
\* third one that has merged a stamp yet holds that entry behind the owner
C18_Witness ==
    \E p \in Proc, q \in Proc, r \in Proc :
        /\ p # q /\ r # q /\ p # r
        /\ vector_clock[q][q] >= 2
        /\ Get(vector_clock[p], q) = vector_clock[q][q]
        /\ Get(vector_clock[r], q) >= 1
        /\ Get(vector_clock[r], q) < vector_clock[q][q]

\* C20: within a process's message_log an earlier entry's local_clock
\* compares BEFORE every later entry's local_clock, every entry's message
\* stamp compares BEFORE the entry's local_clock, and the last entry's
\* local_clock is pointwise at most the process's current clock.
C20_LoggedClocksGrow ==
    \A p \in Proc :
        LET log == message_log[p]
        IN  /\ \A i \in 1..Len(log), j \in 1..Len(log) :
                  i < j => Compare(log[i].local_clock, log[j].local_clock) = BEFORE
            /\ \A i \in 1..Len(log) :
                  Compare(log[i].message.vector_clock, log[i].local_clock) = BEFORE
            /\ Len(log) > 0 =>
                  \A k \in DOMAIN log[Len(log)].local_clock :
                      log[Len(log)].local_clock[k] <= Get(vector_clock[p], k)

\* a log of two entries, the second of a message from another sender with a
\* key the first logged clock does not have, and an event after the last receive
C20_Witness ==
    \E p \in Proc :
        /\ Len(message_log[p]) = 2
        /\ message_log[p][1].message.sender # message_log[p][2].message.sender
        /\ DOMAIN message_log[p][1].local_clock # DOMAIN message_log[p][2].local_clock
        /\ vector_clock[p] # message_log[p][2].local_clock

\* C19: a process's own entry equals the number of local_event, send_message
\* and receive_message calls it has completed.
C19_OwnEntryCountsCalls ==
    \A p \in Proc : vector_clock[p][p] = calls[p]

\* a process with three or more calls behind it, among them a send and the
\* receipt of another process's stamp that holds an entry for the receiver
C19_Witness ==
    \E p \in Proc :
        /\ calls[p] >= 3
        /\ \E i \in 1..Len(message_log[p]) :
              /\ message_log[p][i].message.sender # p
              /\ Get(message_log[p][i].message.vector_clock, p) >= 1
        /\ \E m \in network : m.sender = p

\* ------------------------------------------------------------------------
\* Claims settled under SpecRace
\* ------------------------------------------------------------------------

\* C16: every message_log entry's local_clock is the clock that its own
\* receive_message call committed with its merge and increment, whatever the
\* process's other threads do in the meantime.
C16_LogsCommittedClock ==
    \A i \in 1..Len(r_log) : r_log[i].local_clock = r_committed[i]

====
